---- MODULE Spec2Model ----
(***************************************************************************)
(* Model of src/src/arg_llong.c: the "long long" option type of argtable3. *)
(* One struct arg_llong is constructed by arg_llongn / arg_llong0 /        *)
(* arg_llong1 and then driven through its resetfn, scanfn and checkfn      *)
(* hooks.                                                                  *)
(*                                                                         *)
(* Strings are sequences of one-character strings; a pointer into a string *)
(* is the number of characters before it, so "end == argval" is end = 0    *)
(* and "*end is the terminator" is end = Len(argval).                      *)
(*                                                                         *)
(* long long is modelled with LLongBits bits instead of 64, because TLC's  *)
(* integers are 32 bits wide; LLONG_MAX and LLONG_MIN and every token that *)
(* sits on the range boundary are derived from LLongBits.                  *)
(***************************************************************************)
EXTENDS Integers, Sequences, FiniteSets, TLC

VARIABLES mincount, maxcount, count, ival, op, arg, ret, wrote, accepted, given

vars == <<mincount, maxcount, count, ival, op, arg, ret, wrote, accepted, given>>

(* ---- bounds of the model ---- *)
LLongBits == 8
MaxOcc == 2
MaxLen == 3

(* ---- limits.h ---- *)
LLONG_MAX == 2^(LLongBits - 1) - 1
LLONG_MIN == -LLONG_MAX - 1

(* ---- argtable3.h error codes ---- *)
ARG_ERR_MINCOUNT == 1
ARG_ERR_MAXCOUNT == 2
ARG_ERR_BADINT == 3
ARG_ERR_OVERFLOW == 4

(* the null argval: an optional argument value that was not given *)
NULL == <<"(null)">>

(* ---- characters ---- *)
LowerDigits == <<"0", "1", "2", "3", "4", "5", "6", "7", "8", "9", "a", "b", "c", "d", "e", "f">>
UpperDigits == <<"0", "1", "2", "3", "4", "5", "6", "7", "8", "9", "A", "B", "C", "D", "E", "F">>

(* value of c as a digit, 36 when c is not a digit of any radix up to 16 *)
DigitVal(c) ==
    IF \E i \in 1..16 : LowerDigits[i] = c THEN (CHOOSE i \in 1..16 : LowerDigits[i] = c) - 1
    ELSE IF \E i \in 1..16 : UpperDigits[i] = c THEN (CHOOSE i \in 1..16 : UpperDigits[i] = c) - 1
    ELSE 36

isspace(c) == c = " "

toupper(c) ==
    IF c = "x" THEN "X" ELSE IF c = "o" THEN "O" ELSE IF c = "b" THEN "B" ELSE c

(* the character str[i] (0-based); NUL is the terminator *)
NUL == "NUL"

CharAt(str, i) == IF i < Len(str) THEN str[i + 1] ELSE NUL

(* number of leading whitespace characters of str from position i *)
RECURSIVE SkipSpace(_, _)
SkipSpace(str, i) == IF isspace(CharAt(str, i)) THEN SkipSpace(str, i + 1) ELSE i

(* number of consecutive digits of the radix in str from position i *)
RECURSIVE DigitRun(_, _, _)
DigitRun(str, i, base) ==
    IF DigitVal(CharAt(str, i)) < base THEN 1 + DigitRun(str, i + 1, base) ELSE 0

(* the magnitude denoted by the n digits of str from position i *)
RECURSIVE Magnitude(_, _, _, _)
Magnitude(str, i, n, base) ==
    IF n = 0 THEN 0
    ELSE Magnitude(str, i, n - 1, base) * base + DigitVal(CharAt(str, i + n - 1))

(* a signed magnitude brought into the range of long long, as strtoll does *)
Saturate(neg, mag) ==
    IF neg THEN (IF mag > LLONG_MAX + 1 THEN LLONG_MIN ELSE -mag)
    ELSE (IF mag > LLONG_MAX THEN LLONG_MAX ELSE mag)

(* strtoll(str, &end, 10) of the C library: leading whitespace, an optional *)
(* sign, decimal digits; no digits means end = str; a value out of range    *)
(* comes back as LLONG_MAX or LLONG_MIN.                                    *)
strtoll(str) ==
    LET p == SkipSpace(str, 0)
        signed == CharAt(str, p) \in {"+", "-"}
        neg == CharAt(str, p) = "-"
        q == IF signed THEN p + 1 ELSE p
        n == DigitRun(str, q, 10)
    IN  IF n = 0 THEN [val |-> 0, end |-> 0]
        ELSE [val |-> Saturate(neg, Magnitude(str, q, n, 10)), end |-> q + n]

(* strtoll0X(str, &end, X, base): an optional sign, the prefix 0X with a   *)
(* case-insensitive marker X, then at least one digit of the radix.        *)
(* Anything else consumes nothing (end = str).                             *)
strtoll0X(str, X, base) ==
    LET signed == CharAt(str, 0) \in {"+", "-"}
        neg == CharAt(str, 0) = "-"
        p == IF signed THEN 1 ELSE 0
        n == DigitRun(str, p + 2, base)
    IN  IF CharAt(str, p) # "0" THEN [val |-> 0, end |-> 0]
        ELSE IF toupper(CharAt(str, p + 1)) # toupper(X) THEN [val |-> 0, end |-> 0]
        ELSE IF n = 0 THEN [val |-> 0, end |-> 0]
        ELSE [val |-> Saturate(neg, Magnitude(str, p + 2, n, base)), end |-> p + 2 + n]

(* ---- struct arg_llong ---- *)

(* ival[i] := v; a store outside the allocation leaves ival[] as it is *)
Store(a, i, v) == [j \in DOMAIN a |-> IF j = i THEN v ELSE a[j]]

(* what the freshly allocated, uninitialised ival[] may contain *)
Indeterminate == {0, -1}

arg_llongn_noclamp(min, max, mem) ==
    [mincount |-> min, maxcount |-> max, count |-> 0,
     ival |-> [i \in 0..(max - 1) |-> mem[i]]]

(* arg_llongn(mincount, maxcount): mem is the content of the xmalloc'ed block *)
arg_llongn(min, max, mem) ==
    LET maxc == IF max < min THEN min ELSE max
    IN  [mincount |-> min, maxcount |-> maxc, count |-> 0,
         ival |-> [i \in 0..(maxc - 1) |-> mem[i]]]

arg_llong0(mem) == arg_llongn(0, 1, mem)

arg_llong1(mem) == arg_llongn(1, 1, mem)

arg_llong_resetfn(parent) == [parent EXCEPT !.count = 0]

arg_llong_checkfn_le(parent) ==
    IF parent.count <= parent.mincount THEN ARG_ERR_MINCOUNT ELSE 0

arg_llong_checkfn(parent) ==
    IF parent.count < parent.mincount THEN ARG_ERR_MINCOUNT ELSE 0

(* ---- scanfn ---- *)

Result(parent, errorcode, stored) ==
    [parent |-> parent, errorcode |-> errorcode, stored |-> stored]

convert_decfirst(argval) ==
    LET dec == strtoll(argval)
        hex == strtoll0X(argval, "X", 16)
        oct == strtoll0X(argval, "O", 8)
        bin == strtoll0X(argval, "B", 2)
    IN  IF dec.end # 0 THEN dec
        ELSE IF hex.end # 0 THEN hex
        ELSE IF oct.end # 0 THEN oct
        ELSE bin

(* the cascade hex -> octal -> binary -> decimal; end = 0: all four failed *)
convert(argval) ==
    LET hex == strtoll0X(argval, "X", 16)
        oct == strtoll0X(argval, "O", 8)
        bin == strtoll0X(argval, "B", 2)
        dec == strtoll(argval)
    IN  IF hex.end # 0 THEN hex
        ELSE IF oct.end # 0 THEN oct
        ELSE IF bin.end # 0 THEN bin
        ELSE dec

scan_value_noendcheck(parent, argval) ==
    LET c == convert(argval)
        errorcode == IF c.val > LLONG_MAX \/ c.val < LLONG_MIN THEN ARG_ERR_OVERFLOW ELSE 0
    IN  IF c.end = 0 THEN Result(parent, ARG_ERR_BADINT, -1)
        ELSE IF errorcode = 0
        THEN Result([parent EXCEPT !.ival = Store(@, parent.count, c.val),
                                   !.count = @ + 1], 0, parent.count)
        ELSE Result(parent, errorcode, -1)

scan_value_nofail(parent, argval) ==
    LET c == convert(argval)
        errorcode == IF c.val > LLONG_MAX \/ c.val < LLONG_MIN THEN ARG_ERR_OVERFLOW ELSE 0
    IN  IF c.end # Len(argval) THEN Result(parent, ARG_ERR_BADINT, -1)
        ELSE IF errorcode = 0
        THEN Result([parent EXCEPT !.ival = Store(@, parent.count, c.val),
                                   !.count = @ + 1], 0, parent.count)
        ELSE Result(parent, errorcode, -1)

scan_value_preinc(parent, argval) ==
    LET c == convert(argval)
        errorcode == IF c.val > LLONG_MAX \/ c.val < LLONG_MIN THEN ARG_ERR_OVERFLOW ELSE 0
    IN  IF c.end = 0 THEN Result(parent, ARG_ERR_BADINT, -1)
        ELSE IF c.end # Len(argval) THEN Result(parent, ARG_ERR_BADINT, -1)
        ELSE IF errorcode = 0
        THEN Result([parent EXCEPT !.ival = Store(@, parent.count + 1, c.val),
                                   !.count = @ + 1], 0, parent.count + 1)
        ELSE Result(parent, errorcode, -1)

(* the last branch of scanfn: convert argval, then store it *)
scan_value(parent, argval) ==
    LET c == convert(argval)
        errorcode == IF c.val > LLONG_MAX \/ c.val < LLONG_MIN THEN ARG_ERR_OVERFLOW ELSE 0
    IN  IF c.end = 0 THEN Result(parent, ARG_ERR_BADINT, -1)
        ELSE IF c.end # Len(argval) THEN Result(parent, ARG_ERR_BADINT, -1)
        ELSE IF errorcode = 0
        THEN Result([parent EXCEPT !.ival = Store(@, parent.count, c.val),
                                   !.count = @ + 1], 0, parent.count)
        ELSE Result(parent, errorcode, -1)

arg_llong_scanfn_gt(parent, argval) ==
    IF parent.count > parent.maxcount THEN Result(parent, ARG_ERR_MAXCOUNT, -1)
    ELSE IF argval = NULL THEN Result([parent EXCEPT !.count = @ + 1], 0, -1)
    ELSE scan_value(parent, argval)

arg_llong_scanfn_nullfirst(parent, argval) ==
    IF argval = NULL THEN Result([parent EXCEPT !.count = @ + 1], 0, -1)
    ELSE IF parent.count = parent.maxcount THEN Result(parent, ARG_ERR_MAXCOUNT, -1)
    ELSE scan_value(parent, argval)

arg_llong_scanfn_nullstore(parent, argval) ==
    IF parent.count = parent.maxcount THEN Result(parent, ARG_ERR_MAXCOUNT, -1)
    ELSE IF argval = NULL
    THEN Result([parent EXCEPT !.ival = Store(@, parent.count, 0),
                               !.count = @ + 1], 0, parent.count)
    ELSE scan_value(parent, argval)

(* stored is the index of ival[] the call wrote, -1 when it wrote none *)
arg_llong_scanfn(parent, argval) ==
    IF parent.count = parent.maxcount THEN Result(parent, ARG_ERR_MAXCOUNT, -1)
    ELSE IF argval = NULL THEN Result([parent EXCEPT !.count = @ + 1], 0, -1)
    ELSE scan_value(parent, argval)

(* ---- tokens ---- *)

DecDigits == <<"0", "1", "2", "3", "4", "5", "6", "7", "8", "9">>

(* the decimal literal of n >= 0 *)
RECURSIVE DecStr(_)
DecStr(n) == IF n < 10 THEN <<DecDigits[n + 1]>> ELSE Append(DecStr(n \div 10), DecDigits[(n % 10) + 1])

(* the binary digits of n >= 0 *)
RECURSIVE BinStr(_)
BinStr(n) == IF n < 2 THEN <<DecDigits[n + 1]>> ELSE Append(BinStr(n \div 2), DecDigits[(n % 2) + 1])

TokMax == DecStr(LLONG_MAX)
TokMaxPlus1 == DecStr(LLONG_MAX + 1)
TokMin == <<"-">> \o DecStr(LLONG_MAX + 1)
TokMinMinus1 == <<"-">> \o DecStr(LLONG_MAX + 2)
TokBinMaxPlus1 == <<"0", "b">> \o BinStr(LLONG_MAX + 1)

Tok26 == <<"2", "6">>
TokHex26 == <<"0", "x", "1", "A">>
TokOct26 == <<"0", "o", "3", "2">>
TokBin26 == <<"0", "b", "1", "1", "0", "1", "0">>
Tok1p5 == <<"1", ".", "5">>
TokBare == {<<"0", "x">>, <<"0", "o">>, <<"0", "b">>, <<"0", "X">>, <<"0", "O">>, <<"0", "B">>,
            <<"+", "0", "x">>, <<"-", "0", "o">>, <<"-", "0", "b">>}

(* the argument values of the parse passes *)
Tokens == {Tok26, TokHex26, Tok1p5, <<"0", "x">>, <<"-", "7">>, TokMax, TokMaxPlus1}

Alphabet == {"0", "1", "9", "x", "o", "b", "+", "-", ".", " "}

RECURSIVE Strings(_)
Strings(n) ==
    IF n = 0 THEN {<<>>}
    ELSE LET shorter == Strings(n - 1)
         IN  shorter \cup {Append(w, c) : w \in {v \in shorter : Len(v) = n - 1}, c \in Alphabet}

(* every string of up to MaxLen characters, and the literals named above *)
AllTokens ==
    Strings(MaxLen) \cup Tokens \cup TokBare
    \cup {TokOct26, TokBin26, TokMin, TokMinMinus1, TokBinMaxPlus1,
          <<"0", "X", "1", "a">>, <<"+", "0", "O", "3", "2">>, <<"-", "0", "B", "1", "1", "0", "1", "0">>,
          <<"+", "2", "6">>, <<"-", "2", "6">>, <<"0", "x", "1", "G">>, <<"0", "o", "3", "8">>}

(* ---- the state machine ---- *)

Parent == [mincount |-> mincount, maxcount |-> maxcount, count |-> count, ival |-> ival]

(* an accepted occurrence: the slot it took and what the slot holds since *)
Occurrence(null, val) == [null |-> null, val |-> val]

Constructed(p, ctor, min, max) ==
    /\ mincount = p.mincount
    /\ maxcount = p.maxcount
    /\ count = p.count
    /\ ival = p.ival
    /\ op = "new"
    /\ arg = NULL
    /\ ret = 0
    /\ wrote = -1
    /\ accepted = <<>>
    /\ given = [ctor |-> ctor, mincount |-> min, maxcount |-> max]

Init ==
    \E mem \in [0..(MaxOcc - 1) -> Indeterminate] :
        \/ \E min \in 0..MaxOcc, max \in 0..MaxOcc :
               Constructed(arg_llongn(min, max, mem), "arg_llongn", min, max)
        \/ Constructed(arg_llong0(mem), "arg_llong0", 0, 1)
        \/ Constructed(arg_llong1(mem), "arg_llong1", 1, 1)

Reset ==
    LET p == arg_llong_resetfn(Parent)
    IN  /\ count' = p.count
        /\ ival' = p.ival
        /\ op' = "reset"
        /\ arg' = NULL
        /\ ret' = 0
        /\ wrote' = -1
        /\ accepted' = <<>>
        /\ UNCHANGED <<mincount, maxcount, given>>

Scan(argval) ==
    LET r == arg_llong_scanfn(Parent, argval)
    IN  /\ count' = r.parent.count
        /\ ival' = r.parent.ival
        /\ op' = "scan"
        /\ arg' = argval
        /\ ret' = r.errorcode
        /\ wrote' = r.stored
        /\ accepted' = IF r.errorcode # 0 THEN accepted
                       ELSE IF argval = NULL
                       THEN Append(accepted, Occurrence(TRUE, IF count \in DOMAIN ival THEN ival[count] ELSE 0))
                       ELSE Append(accepted, Occurrence(FALSE, convert(argval).val))
        /\ UNCHANGED <<mincount, maxcount, given>>

Check ==
    /\ op' = "check"
    /\ arg' = NULL
    /\ ret' = arg_llong_checkfn(Parent)
    /\ wrote' = -1
    /\ UNCHANGED <<mincount, maxcount, count, ival, accepted, given>>

ScanToken == \E argval \in Tokens \cup {NULL} : Scan(argval)

Next == Reset \/ ScanToken \/ Check

Spec == Init /\ [][Next]_vars

(* one parse pass over a maximal option: occurrences without a value, then *)
(* one occurrence whose value is any string of AllTokens                   *)
InitConv ==
    \E mem \in [0..(MaxOcc - 1) -> Indeterminate] :
        Constructed(arg_llongn(0, MaxOcc, mem), "arg_llongn", 0, MaxOcc)

ScanNull == arg = NULL /\ Scan(NULL)

ScanAny == arg = NULL /\ \E argval \in AllTokens : Scan(argval)

NextConv == ScanNull \/ ScanAny

SpecConv == InitConv /\ [][NextConv]_vars

(* ---- what a token denotes, read off its text ---- *)

Unsigned(t) == IF Len(t) > 0 /\ t[1] \in {"+", "-"} THEN Tail(t) ELSE t

Radix(t) ==
    LET b == Unsigned(t)
    IN  IF Len(b) >= 2 /\ b[1] = "0" /\ b[2] \in {"x", "X"} THEN 16
        ELSE IF Len(b) >= 2 /\ b[1] = "0" /\ b[2] \in {"o", "O"} THEN 8
        ELSE IF Len(b) >= 2 /\ b[1] = "0" /\ b[2] \in {"b", "B"} THEN 2
        ELSE 10

DigitsOf(t) == IF Radix(t) = 10 THEN Unsigned(t) ELSE Tail(Tail(Unsigned(t)))

IsLiteral(t) ==
    /\ Len(DigitsOf(t)) >= 1
    /\ \A i \in 1..Len(DigitsOf(t)) : DigitVal(DigitsOf(t)[i]) < Radix(t)

RECURSIVE SeqValue(_, _)
SeqValue(ds, base) ==
    IF ds = <<>> THEN 0
    ELSE SeqValue(SubSeq(ds, 1, Len(ds) - 1), base) * base + DigitVal(ds[Len(ds)])

Denoted(t) ==
    IF Len(t) > 0 /\ t[1] = "-" THEN -SeqValue(DigitsOf(t), Radix(t))
    ELSE SeqValue(DigitsOf(t), Radix(t))

InRange(v) == v >= LLONG_MIN /\ v <= LLONG_MAX

IsBarePrefix(t) ==
    /\ Len(Unsigned(t)) = 2
    /\ Unsigned(t)[1] = "0"
    /\ Unsigned(t)[2] \in {"x", "X", "o", "O", "b", "B"}

(* the characters the first grammar that consumes any consumes, 0 if none does *)
WinnerEnd(t) ==
    IF strtoll0X(t, "X", 16).end > 0 THEN strtoll0X(t, "X", 16).end
    ELSE IF strtoll0X(t, "O", 8).end > 0 THEN strtoll0X(t, "O", 8).end
    ELSE IF strtoll0X(t, "B", 2).end > 0 THEN strtoll0X(t, "B", 2).end
    ELSE strtoll(t).end

(* a step that is a call of scanfn on an option that is not full *)
ScanStep == op' = "scan" /\ count < maxcount

Untouched == count' = count /\ ival' = ival

(* ---- C1 ---- *)

C2_Step ==
    /\ (op' = "scan" /\ count = maxcount) =>
           (ret' = ARG_ERR_MAXCOUNT /\ Untouched)
    /\ (op = "scan" /\ ret = ARG_ERR_MAXCOUNT /\ op' = "scan") =>
           ret' = ARG_ERR_MAXCOUNT

(* C2: a scan with count = maxcount returns ARG_ERR_MAXCOUNT whatever the  *)
(* token, changes neither count nor ival[], and so does every scan that    *)
(* follows it without a reset in between.                                  *)
C2_ExcessOccurrences == [][C2_Step]_vars

C2_Witness ==
    /\ op = "scan"
    /\ arg = TokMaxPlus1
    /\ ret = ARG_ERR_MAXCOUNT
    /\ count = maxcount
    /\ maxcount > 0

(* ---- C3 ---- *)

C3_Step ==
    /\ (ScanStep /\ IsLiteral(arg') /\ ~InRange(Denoted(arg'))) =>
           (ret' = ARG_ERR_OVERFLOW /\ Untouched)
    /\ (ScanStep /\ arg' = TokMax) =>
           (ret' = 0 /\ count' = count + 1 /\ ival' = Store(ival, count, LLONG_MAX))

(* C3: on an option that is not full, a well-formed token outside the      *)
(* range of long long returns ARG_ERR_OVERFLOW and stores nothing, and the *)
(* token of LLONG_MAX is stored as LLONG_MAX.                              *)
C3_OverflowDetected == [][C3_Step]_vars

(* ---- C4 ---- *)

Converted == SelectSeq(accepted, LAMBDA o : ~o.null)

(* C4 as stated: ival[0..count) is exactly the sequence of the integers    *)
(* converted since the last reset.                                         *)
C4_ValuesAreConverted ==
    /\ count = Len(Converted)
    /\ \A i \in 1..count : ival[i - 1] = Converted[i].val

(* C4 (amended): the i-th occurrence accepted since the last reset owns    *)
(* ival[i]; it holds the converted integer if the occurrence had a value,  *)
(* and what the slot held before the call if it had none.                  *)
C4_SlotPerOccurrence ==
    /\ count = Len(accepted)
    /\ \A i \in 1..count : ival[i - 1] = accepted[i].val

C4_Witness ==
    /\ count = 2
    /\ accepted[1].null
    /\ ~accepted[2].null
    /\ ival[0] = 26
    /\ ival[1] = -7

(* ---- C5 ---- *)

C5_Step ==
    (ScanStep /\ arg' = NULL) => (ret' = 0 /\ count' = count + 1 /\ ival' = ival)

(* C5: on an option that is not full, a scan of the null value returns 0,  *)
(* adds one to count and changes no element of ival[].                     *)
C5_NullCounts == [][C5_Step]_vars

C5_Witness ==
    /\ op = "scan"
    /\ arg = NULL
    /\ ret = 0
    /\ count = 1
    /\ ival[0] = 26

(* ---- C6 ---- *)

C6_Step ==
    (ScanStep /\ arg' # NULL /\ (WinnerEnd(arg') = 0 \/ WinnerEnd(arg') # Len(arg'))) =>
        (ret' = ARG_ERR_BADINT /\ Untouched)

(* C6: on an option that is not full, a token of which the winning grammar *)
(* leaves characters unconsumed, or of which no grammar consumes any,      *)
(* returns ARG_ERR_BADINT and changes neither count nor ival[].            *)
C6_InvalidInteger == [][C6_Step]_vars

C6_Witness ==
    /\ op = "scan"
    /\ arg = Tok1p5
    /\ strtoll(arg).end = 1
    /\ ret = ARG_ERR_BADINT
    /\ count < maxcount

(* ---- C7 ---- *)

C7_Step ==
    /\ (ScanStep /\ IsLiteral(arg') /\ InRange(Denoted(arg'))) =>
           (ret' = 0 /\ count' = count + 1 /\ ival' = Store(ival, count, Denoted(arg')))
    /\ (ScanStep /\ arg' \in {Tok26, TokHex26, TokOct26, TokBin26}) =>
           ival'[count] = 26

(* C7: on an option that is not full, a complete in-range literal of one   *)
(* of the four grammars is stored at ival[count] as the integer it denotes *)
(* in its radix; 0x1A, 0o32, 0b11010 and 26 are all stored as 26.          *)
C7_StoresDenotedValue == [][C7_Step]_vars

C7_Witness ==
    /\ op = "scan"
    /\ arg = TokBin26
    /\ ret = 0
    /\ count = 2
    /\ ival[1] = 26

(* ---- C8 ---- *)

C8_Step ==
    /\ op' = "check" =>
           /\ ret' = (IF count < mincount THEN ARG_ERR_MINCOUNT ELSE 0)
           /\ Untouched
    /\ op' = "reset" => count' = 0
    /\ (op = "reset" /\ op' = "check" /\ mincount > 0) => ret' = ARG_ERR_MINCOUNT

(* C8: check returns ARG_ERR_MINCOUNT exactly when count < mincount and 0  *)
(* otherwise and changes nothing; reset leaves count = 0, so a check right *)
(* after a reset of an option with mincount > 0 returns ARG_ERR_MINCOUNT.  *)
C8_CheckMinCount == [][C8_Step]_vars

C8_Witness ==
    /\ op = "check"
    /\ ret = ARG_ERR_MINCOUNT
    /\ count = 0
    /\ mincount > 0
    /\ \E i \in DOMAIN ival : ival[i] = 26

(* ---- C9 ---- *)

(* C9: construction keeps mincount, raises a maxcount below mincount to    *)
(* mincount and keeps any other, gives ival[] that many elements and       *)
(* count = 0; arg_llong0 gives the bounds (0,1) and arg_llong1 (1,1).      *)
C9_ClampedConstruction ==
    /\ mincount = given.mincount
    /\ maxcount = (IF given.maxcount < given.mincount THEN given.mincount ELSE given.maxcount)
    /\ DOMAIN ival = 0..(maxcount - 1)
    /\ op = "new" => count = 0
    /\ given.ctor = "arg_llong0" => (mincount = 0 /\ maxcount = 1)
    /\ given.ctor = "arg_llong1" => (mincount = 1 /\ maxcount = 1)

C9_Witness ==
    /\ op = "new"
    /\ given.maxcount < given.mincount
    /\ maxcount = given.mincount
    /\ count = 0

(* ---- C10 ---- *)

C10_Step ==
    (ScanStep /\ IsBarePrefix(arg')) =>
        /\ strtoll0X(arg', "X", 16).end = 0
        /\ strtoll0X(arg', "O", 8).end = 0
        /\ strtoll0X(arg', "B", 2).end = 0
        /\ strtoll(arg').end = Len(arg') - 1
        /\ ret' = ARG_ERR_BADINT
        /\ Untouched

(* C10: on an option that is not full, a radix prefix without digits       *)
(* consumes nothing as hex, octal or binary, the decimal grammar consumes  *)
(* up to its "0" only, and scan returns ARG_ERR_BADINT and stores nothing. *)
C10_BarePrefix == [][C10_Step]_vars

C10_Witness ==
    /\ op = "scan"
    /\ arg = <<"-", "0", "b">>
    /\ ret = ARG_ERR_BADINT
    /\ count = 1
    /\ maxcount = MaxOcc

====
